---- MODULE Spec2Model ----
(***************************************************************************)
(* SparkSubmitOperator (airflow/providers/apache/spark/operators/          *)
(* spark_submit.py): a configuration bag plus a lazily constructed          *)
(* SparkSubmitHook to which execute and on_kill delegate.                   *)
(*                                                                         *)
(* Python values are modelled as strings; None is the string "None", the   *)
(* integer 1 is "1" and the boolean False is "False".  The attribute        *)
(* self._x of the source is the field x of the record self.               *)
(***************************************************************************)
EXTENDS Naturals, Sequences, FiniteSets

VARIABLES
    kwargs,      \* keyword arguments the constructor was called with
    self,        \* the operator's configuration attributes
    _hook,       \* self._hook: 0 is None, otherwise an index into hooks
    hooks,       \* every SparkSubmitHook constructed so far
    handles,     \* every submission launched so far
    epc,         \* position of the caller of execute
    kpc,         \* position of the caller of on_kill
    execCalls,   \* number of execute calls begun
    killCalls,   \* number of on_kill calls begun
    attempts,    \* per execute call that reached submit: hook and handle used
    killLog,     \* per on_kill call that reached the hook: the submission then in flight
    raised       \* what the last execute that reached submit raised

vars == <<kwargs, self, _hook, hooks, handles, epc, kpc, execCalls, killCalls,
          attempts, killLog, raised>>

\* Bounds of the model.
MaxExecutes == 2
MaxKills == 2
MaxGiven == 2

None == "None"

\* Keyword parameters of SparkSubmitHook, as named in _get_hook.
HookParams ==
    {"conf", "conn_id", "files", "py_files", "archives", "driver_class_path",
     "jars", "java_class", "packages", "exclude_packages", "repositories",
     "total_executor_cores", "executor_cores", "executor_memory",
     "driver_memory", "keytab", "principal", "proxy_user", "name",
     "num_executors", "status_poll_interval", "application_args", "env_vars",
     "verbose", "spark_binary"}

\* Keyword parameters of SparkSubmitOperator.__init__.
Params == HookParams \cup {"application"}

\* The application references a caller may pass: empty and non-empty.
ApplicationValues == {"", "job.jar"}

\* The value a caller passes for any other parameter, when it passes one:
\* distinct per parameter and distinct from every default.
ArgValue(p) ==
    IF p = "conf" THEN "{spark.x: 1}"
    ELSE IF p = "conn_id" THEN "spark_yarn"
    ELSE IF p = "files" THEN "a.txt"
    ELSE IF p = "py_files" THEN "dep.zip"
    ELSE IF p = "archives" THEN "env.tgz"
    ELSE IF p = "driver_class_path" THEN "/opt/cp"
    ELSE IF p = "jars" THEN "lib.jar"
    ELSE IF p = "java_class" THEN "org.Main"
    ELSE IF p = "packages" THEN "org.a:b:1.0"
    ELSE IF p = "exclude_packages" THEN "org.c:d"
    ELSE IF p = "repositories" THEN "http://repo"
    ELSE IF p = "total_executor_cores" THEN "8"
    ELSE IF p = "executor_cores" THEN "4"
    ELSE IF p = "executor_memory" THEN "2G"
    ELSE IF p = "driver_memory" THEN "3G"
    ELSE IF p = "keytab" THEN "/etc/kt"
    ELSE IF p = "principal" THEN "user@REALM"
    ELSE IF p = "proxy_user" THEN "proxy"
    ELSE IF p = "name" THEN "my-job"
    ELSE IF p = "num_executors" THEN "3"
    ELSE IF p = "status_poll_interval" THEN "10"
    ELSE IF p = "application_args" THEN "[-f, x]"
    ELSE IF p = "env_vars" THEN "{K: v}"
    ELSE IF p = "verbose" THEN "True"
    ELSE "spark2-submit"

\* The sets of at most n hook parameters.
RECURSIVE GivenSets(_)
GivenSets(n) ==
    IF n = 0 THEN {{}}
    ELSE LET smaller == GivenSets(n - 1)
         IN  smaller \cup {S \cup {p} : S \in smaller, p \in HookParams}

\* The keyword-argument dictionaries considered: application absent, empty
\* or non-empty, and at most MaxGiven of the other parameters given.
KwargsSets ==
    {[p \in S |-> ArgValue(p)] : S \in GivenSets(MaxGiven)}
    \cup {[p \in S \cup {"application"} |-> IF p = "application" THEN a ELSE ArgValue(p)] :
             S \in GivenSets(MaxGiven), a \in ApplicationValues}

\* Binding of a keyword parameter: the argument if given, else the default.
Arg(kw, p, default) == IF p \in DOMAIN kw THEN kw[p] ELSE default

\* __init__: every parameter is stored in the attribute of the same name.
SparkSubmitOperator(kw) ==
    [application          |-> Arg(kw, "application", ""),
     conf                 |-> Arg(kw, "conf", None),
     files                |-> Arg(kw, "files", None),
     py_files             |-> Arg(kw, "py_files", None),
     archives             |-> Arg(kw, "archives", None),
     driver_class_path    |-> Arg(kw, "driver_class_path", None),
     jars                 |-> Arg(kw, "jars", None),
     java_class           |-> Arg(kw, "java_class", None),
     packages             |-> Arg(kw, "packages", None),
     exclude_packages     |-> Arg(kw, "exclude_packages", None),
     repositories         |-> Arg(kw, "repositories", None),
     total_executor_cores |-> Arg(kw, "total_executor_cores", None),
     executor_cores       |-> Arg(kw, "executor_cores", None),
     executor_memory      |-> Arg(kw, "executor_memory", None),
     driver_memory        |-> Arg(kw, "driver_memory", None),
     keytab               |-> Arg(kw, "keytab", None),
     principal            |-> Arg(kw, "principal", None),
     proxy_user           |-> Arg(kw, "proxy_user", None),
     name                 |-> Arg(kw, "name", "arrow-spark"),
     num_executors        |-> Arg(kw, "num_executors", None),
     status_poll_interval |-> Arg(kw, "status_poll_interval", "1"),
     application_args     |-> Arg(kw, "application_args", None),
     env_vars             |-> Arg(kw, "env_vars", None),
     verbose              |-> Arg(kw, "verbose", "False"),
     spark_binary         |-> Arg(kw, "spark_binary", None),
     conn_id              |-> Arg(kw, "conn_id", "spark_default")]

\* A freshly constructed hook: its constructor arguments, the calls made on
\* it so far, and the submission it tracks (0: none).
SparkSubmitHook(args) ==
    [args |-> args, submit_calls |-> <<>>, on_kill_calls |-> 0, handle |-> 0]

\* Slip: files and py_files passed to each other's parameter.
_get_hook_swapped_files(s) ==
    SparkSubmitHook(
        [conf                 |-> s.conf,
         conn_id              |-> s.conn_id,
         files                |-> s.py_files,
         py_files             |-> s.files,
         archives             |-> s.archives,
         driver_class_path    |-> s.driver_class_path,
         jars                 |-> s.jars,
         java_class           |-> s.java_class,
         packages             |-> s.packages,
         exclude_packages     |-> s.exclude_packages,
         repositories         |-> s.repositories,
         total_executor_cores |-> s.total_executor_cores,
         executor_cores       |-> s.executor_cores,
         executor_memory      |-> s.executor_memory,
         driver_memory        |-> s.driver_memory,
         keytab               |-> s.keytab,
         principal            |-> s.principal,
         proxy_user           |-> s.proxy_user,
         name                 |-> s.name,
         num_executors        |-> s.num_executors,
         status_poll_interval |-> s.status_poll_interval,
         application_args     |-> s.application_args,
         env_vars             |-> s.env_vars,
         verbose              |-> s.verbose,
         spark_binary         |-> s.spark_binary])

\* _get_hook: builds the hook from the stored attributes.
_get_hook(s) ==
    SparkSubmitHook(
        [conf                 |-> s.conf,
         conn_id              |-> s.conn_id,
         files                |-> s.files,
         py_files             |-> s.py_files,
         archives             |-> s.archives,
         driver_class_path    |-> s.driver_class_path,
         jars                 |-> s.jars,
         java_class           |-> s.java_class,
         packages             |-> s.packages,
         exclude_packages     |-> s.exclude_packages,
         repositories         |-> s.repositories,
         total_executor_cores |-> s.total_executor_cores,
         executor_cores       |-> s.executor_cores,
         executor_memory      |-> s.executor_memory,
         driver_memory        |-> s.driver_memory,
         keytab               |-> s.keytab,
         principal            |-> s.principal,
         proxy_user           |-> s.proxy_user,
         name                 |-> s.name,
         num_executors        |-> s.num_executors,
         status_poll_interval |-> s.status_poll_interval,
         application_args     |-> s.application_args,
         env_vars             |-> s.env_vars,
         verbose              |-> s.verbose,
         spark_binary         |-> s.spark_binary])

\* State after SparkSubmitOperator(**kwargs) returned.
Init ==
    /\ kwargs \in KwargsSets
    /\ self = SparkSubmitOperator(kwargs)
    /\ _hook = 0
    /\ hooks = <<>>
    /\ handles = <<>>
    /\ epc = "idle"
    /\ kpc = "idle"
    /\ execCalls = 0
    /\ killCalls = 0
    /\ attempts = <<>>
    /\ killLog = <<>>
    /\ raised = "nothing"

\* The submission the blocked execute is waiting for (0: none).
InFlight == IF epc = "submit" THEN attempts[Len(attempts)].handle ELSE 0

\* SparkSubmitHook's command builder: an empty application reference is a
\* configuration error, anything else builds.
Build(applicationRef) == IF applicationRef = "" THEN "ConfigError" ELSE "nothing"

\* SparkSubmitHook.submit(applicationRef) on hook h, up to the point where it
\* blocks: the call is recorded; a configuration error is raised before
\* anything is launched, otherwise a new submission is launched and tracked.
hook_submit(h, applicationRef) ==
    LET ok == Build(applicationRef) = "nothing"
    IN  /\ hooks' = [hooks EXCEPT ![h].submit_calls = Append(@, applicationRef),
                                  ![h].handle = IF ok THEN Len(handles) + 1 ELSE @]
        /\ handles' = IF ok
                      THEN Append(handles, [hook |-> h,
                                            application |-> applicationRef,
                                            status |-> "RUNNING",
                                            signals |-> 0])
                      ELSE handles

\* SparkSubmitHook.on_kill() on hook h: the tracked submission is sent a
\* termination signal if it is still running and was not signalled before;
\* otherwise nothing happens.
hook_on_kill(h) ==
    LET t == hooks[h].handle
    IN  /\ hooks' = [hooks EXCEPT ![h].on_kill_calls = @ + 1]
        /\ handles' = IF t # 0 /\ handles[t].status = "RUNNING" /\ handles[t].signals = 0
                      THEN [handles EXCEPT ![t].signals = 1]
                      ELSE handles

\* Slip: the submit call indented under the if, so that an execute that
\* finds a hook returns without submitting.
execute_180_submit_under_if ==
    /\ epc = "idle"
    /\ execCalls < MaxExecutes
    /\ execCalls' = execCalls + 1
    /\ epc' = IF _hook = 0 THEN "181" ELSE "idle"
    /\ UNCHANGED <<kwargs, self, _hook, hooks, handles, kpc, killCalls, attempts,
                   killLog, raised>>

\* Slip: the None check dropped, a hook is built on every execute.
execute_180_no_check ==
    /\ epc = "idle"
    /\ execCalls < MaxExecutes
    /\ execCalls' = execCalls + 1
    /\ epc' = "181"
    /\ UNCHANGED <<kwargs, self, _hook, hooks, handles, kpc, killCalls, attempts,
                   killLog, raised>>

\* execute, line 180: if self._hook is None
execute_180 ==
    /\ epc = "idle"
    /\ execCalls < MaxExecutes
    /\ execCalls' = execCalls + 1
    /\ epc' = IF _hook = 0 THEN "181" ELSE "182"
    /\ UNCHANGED <<kwargs, self, _hook, hooks, handles, kpc, killCalls, attempts,
                   killLog, raised>>

\* execute, line 181: self._hook = self._get_hook()
execute_181 ==
    /\ epc = "181"
    /\ hooks' = Append(hooks, _get_hook(self))
    /\ _hook' = Len(hooks) + 1
    /\ epc' = "182"
    /\ UNCHANGED <<kwargs, self, handles, kpc, execCalls, killCalls, attempts,
                   killLog, raised>>

\* Slip: the job name is submitted instead of the application.
execute_182_submits_name ==
    /\ epc = "182"
    /\ hook_submit(_hook, self.name)
    /\ attempts' = Append(attempts, [hook |-> _hook, handle |-> Len(handles')])
    /\ raised' = "nothing"
    /\ epc' = "submit"
    /\ UNCHANGED <<kwargs, self, _hook, kpc, execCalls, killCalls, killLog>>

\* Slip: the application arguments are cleared once they were submitted.
execute_182_clears_args ==
    /\ epc = "182"
    /\ hook_submit(_hook, self.application)
    /\ attempts' = Append(attempts,
                          [hook |-> _hook,
                           handle |-> IF Build(self.application) = "nothing"
                                      THEN Len(handles') ELSE 0])
    /\ raised' = Build(self.application)
    /\ epc' = IF Build(self.application) = "nothing" THEN "submit" ELSE "idle"
    /\ self' = [self EXCEPT !.application_args = None]
    /\ UNCHANGED <<kwargs, _hook, kpc, execCalls, killCalls, killLog>>

\* execute, line 182: self._hook.submit(self._application).  What submit
\* raises leaves execute; otherwise execute stays blocked in submit.
execute_182 ==
    /\ epc = "182"
    /\ hook_submit(_hook, self.application)
    /\ attempts' = Append(attempts,
                          [hook |-> _hook,
                           handle |-> IF Build(self.application) = "nothing"
                                      THEN Len(handles') ELSE 0])
    /\ raised' = Build(self.application)
    /\ epc' = IF Build(self.application) = "nothing" THEN "submit" ELSE "idle"
    /\ UNCHANGED <<kwargs, self, _hook, kpc, execCalls, killCalls, killLog>>

\* The submission execute is blocked on reaches a terminal state and submit
\* returns: KILLED if it was signalled, else its own exit decides.
submit_returns ==
    /\ epc = "submit"
    /\ \E exit \in {"SUCCEEDED", "FAILED"} :
          handles' = [handles EXCEPT ![InFlight].status =
                         IF handles[InFlight].signals > 0 THEN "KILLED" ELSE exit]
    /\ epc' = "idle"
    /\ UNCHANGED <<kwargs, self, _hook, hooks, kpc, execCalls, killCalls, attempts,
                   killLog, raised>>

\* Slip: the None check dropped, a hook is built on every on_kill.
on_kill_185_no_check ==
    /\ kpc = "idle"
    /\ killCalls < MaxKills
    /\ killCalls' = killCalls + 1
    /\ kpc' = "186"
    /\ UNCHANGED <<kwargs, self, _hook, hooks, handles, epc, execCalls, attempts,
                   killLog, raised>>

\* on_kill, line 185: if self._hook is None
on_kill_185 ==
    /\ kpc = "idle"
    /\ killCalls < MaxKills
    /\ killCalls' = killCalls + 1
    /\ kpc' = IF _hook = 0 THEN "186" ELSE "187"
    /\ UNCHANGED <<kwargs, self, _hook, hooks, handles, epc, execCalls, attempts,
                   killLog, raised>>

\* on_kill, line 186: self._hook = self._get_hook()
on_kill_186 ==
    /\ kpc = "186"
    /\ hooks' = Append(hooks, _get_hook(self))
    /\ _hook' = Len(hooks) + 1
    /\ kpc' = "187"
    /\ UNCHANGED <<kwargs, self, handles, epc, execCalls, killCalls, attempts,
                   killLog, raised>>

\* Slip: on_kill calls the hook's submit instead of its on_kill.
on_kill_187_submits ==
    /\ kpc = "187"
    /\ hook_submit(_hook, self.application)
    /\ killLog' = Append(killLog, InFlight)
    /\ kpc' = "idle"
    /\ UNCHANGED <<kwargs, self, _hook, epc, execCalls, killCalls, attempts, raised>>

\* on_kill, line 187: self._hook.on_kill()
on_kill_187 ==
    /\ kpc = "187"
    /\ hook_on_kill(_hook)
    /\ killLog' = Append(killLog, InFlight)
    /\ kpc' = "idle"
    /\ UNCHANGED <<kwargs, self, _hook, epc, execCalls, killCalls, attempts, raised>>

\* Calls made one after the other: execute runs lines 180-182 without an
\* on_kill in between, and on_kill runs lines 185-187 either between two
\* executes or while execute is blocked in submit.
ExecuteTurn == kpc = "idle"
OnKillTurn == epc \in {"idle", "submit"}

Next ==
    \/ ExecuteTurn /\ execute_180
    \/ ExecuteTurn /\ execute_181
    \/ ExecuteTurn /\ execute_182
    \/ ExecuteTurn /\ submit_returns
    \/ OnKillTurn /\ on_kill_185
    \/ OnKillTurn /\ on_kill_186
    \/ OnKillTurn /\ on_kill_187

Spec == Init /\ [][Next]_vars

\* on_kill called from another thread or a signal handler: its lines
\* interleave freely with those of execute.
NextRace ==
    \/ execute_180
    \/ execute_181
    \/ execute_182
    \/ submit_returns
    \/ on_kill_185
    \/ on_kill_186
    \/ on_kill_187

SpecRace == Init /\ [][NextRace]_vars

(***************************************************************************)
(* Observations used by the properties.                                    *)
(***************************************************************************)
Hooks == 1..Len(hooks)

\* Every call of submit made on any hook, as <<hook, position>>.
SubmitCalls == UNION {{<<h, i>> : i \in 1..Len(hooks[h].submit_calls)} : h \in Hooks}

\* Every call of on_kill made on any hook, as <<hook, position>>.
OnKillCalls == UNION {{<<h, i>> : i \in 1..hooks[h].on_kill_calls} : h \in Hooks}

\* Calls of execute that have passed line 182, calls of on_kill that have
\* passed line 187.
ExecutesPastSubmit == execCalls - (IF epc \in {"181", "182"} THEN 1 ELSE 0)
OnKillsPastDelivery == killCalls - (IF kpc \in {"186", "187"} THEN 1 ELSE 0)

\* The application the constructor was called with ('' when left out).
ConfiguredApplication == Arg(kwargs, "application", "")

\* The parameters whose default in the signature of __init__ is not None.
DefaultedParams == {"conn_id", "name", "status_poll_interval", "verbose"}

\* on_kill calls delivered while submission t was in flight.
KillsDuring(t) == {i \in 1..Len(killLog) : killLog[i] = t}

\* Submissions and on_kill calls never land on two different hooks.
SameHookServesBoth ==
    \A h1 \in Hooks, h2 \in Hooks :
        (hooks[h1].submit_calls # <<>> /\ hooks[h2].on_kill_calls > 0) => h1 = h2

(***************************************************************************)
(* Properties.                                                             *)
(***************************************************************************)

\* C1: every execute call makes exactly one call of the hook's submit, its
\* argument is the application the operator was configured with, and the
\* hook's on_kill is called by on_kill calls only, never by execute.
C1_ExecuteSubmitsOnce ==
    /\ Cardinality(SubmitCalls) = ExecutesPastSubmit
    /\ \A c \in SubmitCalls : hooks[c[1]].submit_calls[c[2]] = ConfiguredApplication
    /\ Cardinality(OnKillCalls) = OnKillsPastDelivery

C1_Witness ==
    /\ execCalls = 2 /\ killCalls >= 1
    /\ epc = "idle" /\ kpc = "idle"
    /\ Cardinality(SubmitCalls) = 2
    /\ ConfiguredApplication = "job.jar"

\* C2: a step of an on_kill call made while no submission is in flight
\* starts no submission (no call of submit, no new handle, no attempt),
\* raises nothing, changes no configuration, and leaves the caller of
\* execute idle with a hook at hand once the call is over.
C2_IdleOnKillIsNoOp ==
    [][(kpc' # kpc /\ epc = "idle") =>
          /\ SubmitCalls' = SubmitCalls
          /\ handles' = handles
          /\ attempts' = attempts
          /\ raised' = raised
          /\ self' = self
          /\ epc' = "idle"
          /\ (kpc' = "idle" => _hook' # 0)]_vars

\* An on_kill before any execute, then an execute that launched.
C2_Witness ==
    /\ Len(killLog) >= 1 /\ killLog[1] = 0
    /\ hooks # <<>> /\ hooks[1].on_kill_calls >= 1
    /\ epc = "submit" /\ execCalls = 1
    /\ handles # <<>> /\ handles[1].status = "RUNNING"

\* C3: constructed without a name, the operator stores the job name
\* 'airflow-spark' and passes it to the hook.
C3_DefaultNameIsAirflowSpark ==
    "name" \notin DOMAIN kwargs =>
        /\ self.name = "airflow-spark"
        /\ \A h \in Hooks : hooks[h].args.name = "airflow-spark"

\* C4 as stated: every hook parameter receives the value stored for the
\* field of the same name, and None when the field was left out at
\* construction.
C4_UnsetIsPassedAsNone ==
    \A h \in Hooks :
        /\ DOMAIN hooks[h].args = HookParams
        /\ \A p \in HookParams :
              /\ hooks[h].args[p] = self[p]
              /\ p \notin DOMAIN kwargs => hooks[h].args[p] = None

\* C4 amended: every hook parameter receives the value stored for the field
\* of the same name, which is the value given at construction; a field left
\* out is passed as None unless it is one of conn_id, name,
\* status_poll_interval and verbose, which are passed as stored.
C4_FieldsMapOneToOne ==
    \A h \in Hooks :
        /\ DOMAIN hooks[h].args = HookParams
        /\ \A p \in HookParams :
              /\ hooks[h].args[p] = self[p]
              /\ p \in DOMAIN kwargs => hooks[h].args[p] = kwargs[p]
              /\ (p \notin DOMAIN kwargs /\ p \notin DefaultedParams)
                    => hooks[h].args[p] = None

C4_Witness ==
    /\ hooks # <<>>
    /\ DOMAIN kwargs = {"files", "verbose"}

C6_ConfigNeverMutated == self = SparkSubmitOperator(kwargs)

C6_Witness ==
    /\ execCalls = 2 /\ killCalls = 2
    /\ epc = "idle" /\ kpc = "idle"
    /\ Len(handles) = 2
    /\ "application_args" \in DOMAIN kwargs

C9_HookBuiltLazilyOnce ==
    /\ (execCalls = 0 /\ killCalls = 0) => (_hook = 0 /\ hooks = <<>>)
    /\ Len(hooks) <= 1
    /\ _hook = Len(hooks)
    /\ (execCalls + killCalls > 0 /\ epc # "181" /\ kpc # "186") => Len(hooks) = 1
    /\ SameHookServesBoth

C9_Witness ==
    /\ Len(hooks) = 1
    /\ Len(hooks[1].submit_calls) = 2
    /\ hooks[1].on_kill_calls = 2

\* C10: with on_kill interleaved with execute, at most one hook is ever
\* constructed and on_kill is delivered to the hook that execute submits on.
C10_OneHookUnderRace ==
    /\ Len(hooks) <= 1
    /\ SameHookServesBoth
====
